---- MODULE Spec2Model ----
(***************************************************************************)
(* ALAPScheduleAnalysis.run (qiskit/transpiler/passes/scheduling/          *)
(* scheduling/alap.py) as a state machine.                                 *)
(*                                                                         *)
(* One behaviour is one call of run(dag).  The pass object's property_set *)
(* (time_unit, clbit_write_latency, a node_start_time left by an earlier  *)
(* pass) and the dag's registers are fixed in Init; the list of op nodes  *)
(* is read where the code reads it (line 49) and each duration where the  *)
(* code queries the oracle (line 50).  A node is identified by its        *)
(* position in list(dag.topological_op_nodes()), the forward order.       *)
(***************************************************************************)
EXTENDS Integers, Sequences, FiniteSets

VARIABLES
    pc,               \* "start" | "loop" | "done" | "raised"
    error,            \* the exception that ended the run, "none" otherwise
    qregs,            \* names of dag.qregs
    time_unit,        \* property_set["time_unit"]
    ps_latency,       \* property_set["clbit_write_latency"]
    published,        \* property_set["node_start_time"]
    clbit_write_latency, \* local of run, line 45
    nodes,            \* list(dag.topological_op_nodes()), forward order
    i,                \* position of the next node of the reversed traversal
    op_duration,      \* durations the oracle has returned, by node
    idle_before,      \* local dict of run, line 48
    node_start_time,  \* local dict of run, line 47 (holds t1, the backward end)
    circuit_duration, \* local of run, line 87
    returned,         \* the value run returns; << >> is None
    writes            \* history: assignments to idle_before[bit] made by the loop, by bit

vars == <<pc, error, qregs, time_unit, ps_latency, published,
          clbit_write_latency, nodes, i, op_duration, idle_before,
          node_start_time, circuit_duration, returned, writes>>

----------------------------------------------------------------------------
(* Bounds of the model *)

MaxNodes == 2
MaxDur == 1
MaxLatency == 1

(* The dag's bits: dag.qubits and dag.clbits *)
Qubits == {"q0", "q1"}
Clbits == {"c0"}
Bits == Qubits \cup Clbits

(* dag.qubits + dag.clbits of the dag at hand: the register above, or a     *)
(* register "q" of size 0 and no clbits                                     *)
DagBits == {Bits, {}}

RegNames == {"q", "r"}
TimeUnits == {"dt", "stretch"}

(* The three classes run dispatches on, lines 59 and 64: an op that is an   *)
(* instance of CONDITIONAL_SUPPORTED, a Measure, and everything else        *)
(* (directives and other instructions).                                     *)
Kinds == {"ConditionSupported", "Measurement", "Directive"}

(* qiskit.circuit.Measure acts on one qubit and one clbit *)
MeasureNodes ==
    UNION {{[kind |-> "Measurement", qargs |-> {q}, cargs |-> {c}] : q \in Qubits} : c \in Clbits}

OtherNodes ==
    [kind : Kinds \ {"Measurement"}, qargs : SUBSET Qubits, cargs : SUBSET Clbits]

OpNodes == MeasureNodes \cup OtherNodes

Graphs == UNION {[1..n -> OpNodes] : n \in 0..MaxNodes}

(* the graphs whose nodes act on bits of the dag only *)
GraphsOver(graphs, bits) ==
    {g \in graphs : \A n \in DOMAIN g : g[n].qargs \cup g[n].cargs \subseteq bits}

(* run has no return statement *)
None == << >>

(* What an earlier pass left in property_set["node_start_time"] *)
PrevResult == [n \in {0} |-> 0]

Empty == [n \in {} |-> 0]

----------------------------------------------------------------------------
(* Helpers *)

Max(S) == CHOOSE x \in S : \A y \in S : y <= x

(* dict assignment d[k] = v for every k in ks *)
Assign(d, ks, v) == [k \in DOMAIN d \cup ks |-> IF k \in ks THEN v ELSE d[k]]

(* NotPhysical counting the registers without looking at the name *)
NotPhysical_CountOnly(regs) == Cardinality(regs) # 1

(* line 40 *)
NotPhysical(regs) == Cardinality(regs) # 1 \/ "q" \notin regs

(* line 42 *)
IsStretch(unit) == unit = "stretch"

----------------------------------------------------------------------------
InitWith(latencies) ==
    /\ pc = "start"
    /\ error = "none"
    /\ qregs \in SUBSET RegNames
    /\ time_unit \in TimeUnits
    /\ ps_latency \in latencies
    /\ published = PrevResult
    /\ clbit_write_latency = 0
    /\ nodes = << >>
    /\ i = 0
    /\ op_duration = Empty
    /\ idle_before = Empty
    /\ node_start_time = Empty
    /\ circuit_duration = 0
    /\ returned = None
    /\ writes = Empty

Init == InitWith(0..MaxLatency)

(* The exceptions of run. Lines 41 and 43 both raise TranspilerError; they  *)
(* are told apart by their messages: "MappingError" is "ALAP schedule runs *)
(* on physical circuits only", "ConfigurationError" is "Scheduling cannot  *)
(* run on circuits with stretch durations."                                *)
Raise(e) ==
    /\ pc' = "raised"
    /\ error' = e

(* lines 40-41 *)
RaiseNotPhysical ==
    /\ pc = "start"
    /\ NotPhysical(qregs)
    /\ Raise("MappingError")
    /\ UNCHANGED <<qregs, time_unit, ps_latency, published, clbit_write_latency,
                   nodes, i, op_duration, idle_before, node_start_time,
                   circuit_duration, returned, writes>>

(* lines 42-43 *)
RaiseStretch ==
    /\ pc = "start"
    /\ ~NotPhysical(qregs)
    /\ IsStretch(time_unit)
    /\ Raise("ConfigurationError")
    /\ UNCHANGED <<qregs, time_unit, ps_latency, published, clbit_write_latency,
                   nodes, i, op_duration, idle_before, node_start_time,
                   circuit_duration, returned, writes>>

(* lines 45-49: read the latency, create the dicts, list the op nodes of   *)
(* a dag that is one of the given graphs                                   *)
SetupFrom(graphs) ==
    /\ pc = "start"
    /\ ~NotPhysical(qregs)
    /\ ~IsStretch(time_unit)
    /\ clbit_write_latency' = ps_latency
    /\ node_start_time' = Empty
    /\ \E bits \in DagBits :
          /\ idle_before' = [b \in bits |-> 0]
          /\ writes' = [b \in bits |-> 0]
          /\ \E g \in GraphsOver(graphs, bits) :
                /\ nodes' = g
                /\ i' = Len(g)
    /\ pc' = "loop"
    /\ UNCHANGED <<error, qregs, time_unit, ps_latency, published, op_duration,
                   circuit_duration, returned>>

Setup == SetupFrom(Graphs)

----------------------------------------------------------------------------
(* The loop body, lines 49-84 *)

(* BaseScheduler._get_node_duration: a nonnegative duration, or it raises *)
Durations == 0..MaxDur

(* line 59 *)
IsConditionalSupported(node) == node.kind = "ConditionSupported"

(* line 64 *)
IsMeasure(node) == node.kind = "Measurement"

(* WaitBits with the clbits of a conditional-supported op included *)
WaitBits_All(node) == node.qargs \cup node.cargs

(* the bits whose clocks t0 is the maximum of: line 60, lines 66 and 78 *)
WaitBits(node) ==
    IF IsConditionalSupported(node) THEN node.qargs ELSE node.qargs \cup node.cargs

Min(S) == CHOOSE x \in S : \A y \in S : x <= y

(* T0 taking the earliest clock instead of the latest *)
T0_Min(node, idle) == Min({idle[b] : b \in WaitBits(node)})

(* T0 taking the latest clock of the whole dict, idle_before.values() *)
T0_AllBits(node, idle) == Max({idle[b] : b \in DOMAIN idle})

(* t0, lines 60-61, 66, 78; max() of an empty sequence raises ValueError *)
T0(node, idle) == Max({idle[b] : b \in WaitBits(node)})

(* T1 without the duration added *)
T1_NoDuration(node, idle, d) == T0(node, idle)

(* t1, lines 62, 67, 79 *)
T1(node, idle, d) == T0(node, idle) + d

(* ClbitUpdate writing the full backward end t1, the latency forgotten *)
ClbitUpdate_NoLatency(node, idle, d, latency) ==
    IF IsMeasure(node)
    THEN Assign(idle, node.cargs, T0(node, idle) + d)
    ELSE idle

(* ClbitUpdate writing the clocks of the clbits of every kind of node *)
ClbitUpdate_AllKinds(node, idle, d, latency) ==
    Assign(idle, node.cargs, T0(node, idle) + (d - latency))

(* ClbitUpdate leaving the clbits' clocks alone *)
ClbitUpdate_Skip(node, idle, d, latency) == idle

(* lines 74-75: only a Measure writes the clocks of its clbits *)
ClbitUpdate(node, idle, d, latency) ==
    IF IsMeasure(node)
    THEN Assign(idle, node.cargs, T0(node, idle) + (d - latency))
    ELSE idle

(* QubitUpdate writing the clock of one qubit of the node only *)
QubitUpdate_FirstOnly(node, idle, t1) ==
    Assign(idle, IF node.qargs = {} THEN {} ELSE {CHOOSE q \in node.qargs : TRUE}, t1)

(* lines 81-82: every node writes t1 to the clocks of its qubits *)
QubitUpdate(node, idle, t1) == Assign(idle, node.qargs, t1)

(* idle_before after one pass through the loop body *)
StepIdle(node, idle, d, latency) ==
    QubitUpdate(node, ClbitUpdate(node, idle, d, latency), T1(node, idle, d))

(* DurationUnavailable publishing what the loop has built so far, as a     *)
(* finally-block around the loop would                                     *)
DurationUnavailable_PublishesPartial ==
    /\ pc = "loop"
    /\ i >= 1
    /\ Raise("DurationUnavailable")
    /\ published' = [n \in DOMAIN node_start_time |->
                        Max({idle_before[b] : b \in DOMAIN idle_before}) - node_start_time[n]]
    /\ UNCHANGED <<qregs, time_unit, ps_latency, clbit_write_latency,
                   nodes, i, op_duration, idle_before, node_start_time,
                   circuit_duration, returned, writes>>

(* line 50, the oracle cannot resolve the duration of nodes[i] *)
DurationUnavailable ==
    /\ pc = "loop"
    /\ i >= 1
    /\ Raise("DurationUnavailable")
    /\ UNCHANGED <<qregs, time_unit, ps_latency, published, clbit_write_latency,
                   nodes, i, op_duration, idle_before, node_start_time,
                   circuit_duration, returned, writes>>

(* lines 50-60/66/78: the duration is known and max() gets no bit at all *)
RaiseValueErrorWith(durations) ==
    /\ pc = "loop"
    /\ i >= 1
    /\ WaitBits(nodes[i]) = {}
    /\ \E d \in durations : op_duration' = Assign(op_duration, {i}, d)
    /\ Raise("ValueError")
    /\ UNCHANGED <<qregs, time_unit, ps_latency, published, clbit_write_latency,
                   nodes, i, idle_before, node_start_time, circuit_duration,
                   returned, writes>>

RaiseValueError == RaiseValueErrorWith(Durations)

(* the assignments of one pass through the loop body: line 75 for each     *)
(* clbit of a Measure, line 82 for each qubit of any node                  *)
StepWrites(node, log) ==
    [b \in DOMAIN log |->
        log[b] + (IF IsMeasure(node) /\ b \in node.cargs THEN 1 ELSE 0)
               + (IF b \in node.qargs THEN 1 ELSE 0)]

(* lines 50-84 for nodes[i] *)
ProcessNodeWith(durations) ==
    /\ pc = "loop"
    /\ i >= 1
    /\ WaitBits(nodes[i]) # {}
    /\ \E d \in durations :
          /\ op_duration' = Assign(op_duration, {i}, d)
          /\ idle_before' = StepIdle(nodes[i], idle_before, d, clbit_write_latency)
          /\ node_start_time' = Assign(node_start_time, {i}, T1(nodes[i], idle_before, d))
    /\ writes' = StepWrites(nodes[i], writes)
    /\ i' = i - 1
    /\ UNCHANGED <<pc, error, qregs, time_unit, ps_latency, published,
                   clbit_write_latency, nodes, circuit_duration, returned>>

ProcessNode == ProcessNodeWith(Durations)

----------------------------------------------------------------------------
(* After the loop, lines 86-93 *)

(* line 87 *)
CircuitDuration(idle) == Max({idle[b] : b \in DOMAIN idle})

(* Flip publishing the backward ends as they are *)
Flip_NotFlipped(starts, duration) == starts

(* lines 91-93 *)
Flip(starts, duration) == [n \in DOMAIN starts |-> duration - starts[n]]

(* line 87 on a dag without bits: max() of an empty sequence *)
RaiseValueErrorAtEnd ==
    /\ pc = "loop"
    /\ i = 0
    /\ DOMAIN idle_before = {}
    /\ Raise("ValueError")
    /\ UNCHANGED <<qregs, time_unit, ps_latency, published, clbit_write_latency,
                   nodes, i, op_duration, idle_before, node_start_time,
                   circuit_duration, returned, writes>>

Finalize ==
    /\ pc = "loop"
    /\ i = 0
    /\ DOMAIN idle_before # {}
    /\ circuit_duration' = CircuitDuration(idle_before)
    /\ published' = Flip(node_start_time, CircuitDuration(idle_before))
    /\ returned' = None
    /\ pc' = "done"
    /\ UNCHANGED <<error, qregs, time_unit, ps_latency, clbit_write_latency, nodes,
                   i, op_duration, idle_before, node_start_time, writes>>

Next ==
    \/ RaiseNotPhysical
    \/ RaiseStretch
    \/ Setup
    \/ DurationUnavailable
    \/ RaiseValueError
    \/ ProcessNode
    \/ RaiseValueErrorAtEnd
    \/ Finalize

Spec == Init /\ [][Next]_vars

----------------------------------------------------------------------------
(* The same run on two narrower families of inputs with longer durations   *)

(* single-node dags, durations and latencies up to those of the spec's     *)
(* measurement scenario (d = 10, L = 4)                                    *)
ScenarioMaxDur == 10
ScenarioMaxLatency == 4

SingleGraphs == [1..1 -> OpNodes]

SingleInit == InitWith(0..ScenarioMaxLatency)
SingleSetup == SetupFrom(SingleGraphs)
SingleRaiseValueError == RaiseValueErrorWith(0..ScenarioMaxDur)
SingleProcessNode == ProcessNodeWith(0..ScenarioMaxDur)

NextSingle ==
    \/ RaiseNotPhysical
    \/ RaiseStretch
    \/ SingleSetup
    \/ DurationUnavailable
    \/ SingleRaiseValueError
    \/ SingleProcessNode
    \/ Finalize

SpecSingle == SingleInit /\ [][NextSingle]_vars

(* dags whose nodes reference qubits only, durations up to those of the    *)
(* spec's two-node scenario (5 then 3)                                     *)
ExampleMaxDur == 5

PrimaryGraphs == {g \in Graphs : \A n \in DOMAIN g : g[n].cargs = {}}

PrimarySetup == SetupFrom(PrimaryGraphs)
PrimaryRaiseValueError == RaiseValueErrorWith(0..ExampleMaxDur)
PrimaryProcessNode == ProcessNodeWith(0..ExampleMaxDur)

NextPrimary ==
    \/ RaiseNotPhysical
    \/ RaiseStretch
    \/ PrimarySetup
    \/ DurationUnavailable
    \/ PrimaryRaiseValueError
    \/ PrimaryProcessNode
    \/ RaiseValueErrorAtEnd
    \/ Finalize

SpecPrimary == Init /\ [][NextPrimary]_vars

----------------------------------------------------------------------------
(* run as a function of the traversal list, lines 47-93: the loop over the *)
(* list ns (forward order) with durations ds, from position k down to 1,   *)
(* and the flip that follows                                               *)

RECURSIVE Pass(_, _, _, _, _, _)
Pass(ns, ds, latency, k, idle, ends) ==
    IF k = 0
    THEN [idle |-> idle, ends |-> ends]
    ELSE Pass(ns, ds, latency, k - 1,
              StepIdle(ns[k], idle, ds[k], latency),
              Assign(ends, {k}, T1(ns[k], idle, ds[k])))

RunResult(ns, ds, latency, bits) ==
    LET end == Pass(ns, ds, latency, Len(ns), [b \in bits |-> 0], Empty)
        duration == CircuitDuration(end.idle)
    IN  [start |-> Flip(end.ends, duration), duration |-> duration]

(* The dependency graph of the dag: two op nodes are ordered when they act *)
(* on a common wire.  A list p of the positions of ns is another           *)
(* topological order when it keeps every ordered pair in its order.        *)
Dependent(ns, a, b) ==
    (ns[a].qargs \cup ns[a].cargs) \cap (ns[b].qargs \cup ns[b].cargs) # {}

TopologicalOrders(ns) ==
    {p \in [DOMAIN ns -> DOMAIN ns] :
        /\ \A j \in DOMAIN ns : \A k \in DOMAIN ns : j # k => p[j] # p[k]
        /\ \A j \in DOMAIN ns : \A k \in DOMAIN ns :
              (j < k /\ Dependent(ns, p[j], p[k])) => p[j] < p[k]}

----------------------------------------------------------------------------
(* Vocabulary of the properties *)

Done == pc = "done"
NodeIds == 1..Len(nodes)
StartTime(n) == published[n]
Duration(n) == op_duration[n]
StopTime(n) == StartTime(n) + Duration(n)
SharePrimary(a, b) == nodes[a].qargs \cap nodes[b].qargs # {}
Refs(n) == nodes[n].qargs \cup nodes[n].cargs
(* the forward intervals [start, stop) of a and b have a common point *)
Overlap(a, b) == StartTime(a) < StopTime(b) /\ StartTime(b) < StopTime(a)

----------------------------------------------------------------------------
(* C1. Precedence: after a successful run, a node A that comes after a     *)
(* node B in forward order and shares a qubit with it starts no earlier    *)
(* than B stops: start_time(A) >= start_time(B) + duration(B).             *)
C1_Precedence ==
    Done => \A a \in NodeIds : \A b \in NodeIds :
               (b < a /\ SharePrimary(a, b)) => StartTime(a) >= StartTime(b) + Duration(b)

(* two nodes of positive duration on a common qubit have been scheduled *)
C1_Witness ==
    /\ Done
    /\ \E a \in NodeIds : \E b \in NodeIds :
          /\ b < a
          /\ SharePrimary(a, b)
          /\ Duration(a) > 0
          /\ Duration(b) > 0
          /\ StartTime(a) = StartTime(b) + Duration(b)

(* C2, as claimed. Resource exclusivity on every resource, primary or      *)
(* secondary: after a successful run no two distinct nodes that reference  *)
(* the same bit in qargs or cargs have overlapping forward intervals.      *)
C2_ExclusiveOnEveryResource ==
    Done => \A a \in NodeIds : \A b \in NodeIds :
               (a # b /\ Refs(a) \cap Refs(b) # {}) => ~Overlap(a, b)

(* C2, amended. Resource exclusivity on primary resources: after a         *)
(* successful run no two distinct nodes that share a qubit have            *)
(* overlapping forward intervals, whatever the kinds and the latency.      *)
C2_ExclusiveOnPrimary ==
    Done => \A a \in NodeIds : \A b \in NodeIds :
               (a # b /\ SharePrimary(a, b)) => ~Overlap(a, b)

(* two nodes of positive duration that share a qubit, one of them on both  *)
(* qubits, have been scheduled back to back under a positive latency       *)
C2_Witness ==
    /\ Done
    /\ clbit_write_latency > 0
    /\ \E a \in NodeIds : \E b \in NodeIds :
          /\ a # b
          /\ nodes[a].qargs = Qubits
          /\ Cardinality(nodes[b].qargs) = 1
          /\ Duration(a) > 0
          /\ Duration(b) > 0
          /\ (StartTime(a) = StopTime(b) \/ StartTime(b) = StopTime(a))

(* C3, as claimed. After a successful run every start time lies in         *)
(* [0, circuit_duration].                                                  *)
C3_StartWithinCircuit ==
    Done => \A n \in NodeIds : 0 <= StartTime(n) /\ StartTime(n) <= circuit_duration

(* a step of the loop body that has processed nodes[i] *)
NodeStep == pc = "loop" /\ i >= 1 /\ pc' = "loop" /\ i' = i - 1

(* the latest clock among the given bits, before the step *)
LatestClock(bits) == Max({idle_before[b] : b \in bits})

(* C4, as claimed. No step ever lowers a clock of idle_before, whatever    *)
(* the node kind, the duration and the latency.                            *)
C4_ClocksNeverDecrease ==
    [][\A b \in DOMAIN idle_before : idle_before'[b] >= idle_before[b]]_vars

(* C4, amended. A step lowers no clock of idle_before, except that a       *)
(* Measurement whose duration is smaller than the latency may lower the    *)
(* clocks of its own secondary resources; the clocks of primary resources  *)
(* never decrease.                                                         *)
C4_ClocksDecreaseOnlyByLatency ==
    [][\A b \in DOMAIN idle_before :
          \/ idle_before'[b] >= idle_before[b]
          \/ /\ NodeStep
             /\ nodes[i].kind = "Measurement"
             /\ b \in nodes[i].cargs
             /\ op_duration'[i] < clbit_write_latency]_vars

(* a Measurement has been processed after its clbit's clock had advanced,  *)
(* with a positive latency that its duration covers                        *)
C4_Witness ==
    /\ pc = "loop"
    /\ i < Len(nodes)
    /\ nodes[i + 1].kind = "Measurement"
    /\ clbit_write_latency > 0
    /\ op_duration[i + 1] >= clbit_write_latency
    /\ \E c \in nodes[i + 1].cargs : idle_before[c] > 0
    /\ \E q \in nodes[i + 1].qargs : idle_before[q] > 0

(* C5, as claimed. A step that processes a node that is neither            *)
(* ConditionSupported nor a Measurement takes t0 as the latest clock among *)
(* its qargs and cargs, t1 = t0 + d, and leaves t1 in the clock of each of *)
(* its qargs and of each of its cargs.                                     *)
C5_DefaultPolicy ==
    [][(NodeStep /\ nodes[i].kind \notin {"ConditionSupported", "Measurement"}) =>
          LET t1 == LatestClock(nodes[i].qargs \cup nodes[i].cargs) + op_duration'[i]
          IN  /\ node_start_time'[i] = t1
              /\ \A q \in nodes[i].qargs : idle_before'[q] = t1
              /\ \A c \in nodes[i].cargs : idle_before'[c] = t1]_vars

(* C6. A step that processes a Measurement of duration d takes t0 as the   *)
(* latest clock among its qargs and cargs, t1 = t0 + d, leaves t1 in the   *)
(* clock of each of its qargs and t0 + (d - latency) in the clock of each  *)
(* of its cargs, and records t1 as the node's backward end.                *)
C6_MeasurementPolicy ==
    [][(NodeStep /\ nodes[i].kind = "Measurement") =>
          LET t0 == LatestClock(nodes[i].qargs \cup nodes[i].cargs)
              d == op_duration'[i]
          IN  /\ node_start_time'[i] = t0 + d
              /\ \A q \in nodes[i].qargs : idle_before'[q] = t0 + d
              /\ \A c \in nodes[i].cargs :
                    idle_before'[c] = t0 + (d - clbit_write_latency)]_vars

(* a Measurement of positive duration has been processed under a positive  *)
(* latency, after the clocks it waits for had advanced unequally           *)
C6_Witness ==
    /\ pc = "loop"
    /\ i >= 1
    /\ i < Len(nodes)
    /\ nodes[i + 1].kind = "Measurement"
    /\ clbit_write_latency > 0
    /\ op_duration[i + 1] > 0
    /\ \E q \in nodes[i + 1].qargs : \E c \in nodes[i + 1].cargs :
          idle_before[q] # idle_before[c]

(* m and n reference a common clbit and no common qubit *)
ShareOnlySecondary(m, n) ==
    /\ nodes[m].cargs \cap nodes[n].cargs # {}
    /\ nodes[m].qargs \cap nodes[n].qargs = {}

(* C7, as claimed. For a Measurement M of duration d with 0 <= L <= d,     *)
(* every node N that comes after M in forward order and shares only a      *)
(* secondary resource with M starts no earlier than                        *)
(* start_time(M) + d - L.                                                  *)
C7_SecondaryCommit ==
    Done => \A m \in NodeIds : \A n \in NodeIds :
               ( /\ m < n
                 /\ nodes[m].kind = "Measurement"
                 /\ clbit_write_latency <= Duration(m)
                 /\ ShareOnlySecondary(m, n) )
               => StartTime(n) >= StartTime(m) + Duration(m) - clbit_write_latency

(* C7, amended. For a Measurement M of duration d, when the latency L is   *)
(* at most the duration of every Measurement of the graph, every           *)
(* Measurement N that comes after M in forward order and shares only a     *)
(* secondary resource with M starts no earlier than start_time(M) + d - L. *)
C7_SecondaryCommitBetweenMeasurements ==
    Done => \A m \in NodeIds : \A n \in NodeIds :
               ( /\ m < n
                 /\ nodes[m].kind = "Measurement"
                 /\ nodes[n].kind = "Measurement"
                 /\ \A k \in NodeIds :
                       nodes[k].kind = "Measurement" => clbit_write_latency <= Duration(k)
                 /\ ShareOnlySecondary(m, n) )
               => StartTime(n) >= StartTime(m) + Duration(m) - clbit_write_latency

(* the bound is attained under a positive latency: N starts exactly at     *)
(* start_time(M) + d - L, before M stops                                   *)
C7_Witness ==
    /\ Done
    /\ clbit_write_latency > 0
    /\ \E m \in NodeIds : \E n \in NodeIds :
          /\ m < n
          /\ nodes[m].kind = "Measurement"
          /\ nodes[n].kind = "Measurement"
          /\ ShareOnlySecondary(m, n)
          /\ clbit_write_latency <= Duration(m)
          /\ clbit_write_latency <= Duration(n)
          /\ StartTime(n) = StartTime(m) + Duration(m) - clbit_write_latency
          /\ StartTime(n) < StopTime(m)

(* a and b are consecutive in a resource-occupancy chain *)
Linked(a, b, primaryOnly) ==
    IF primaryOnly THEN SharePrimary(a, b) ELSE Refs(a) \cap Refs(b) # {}

(* the largest sum of durations along a chain that starts at n *)
RECURSIVE ChainFrom(_, _)
ChainFrom(n, primaryOnly) ==
    Duration(n) + Max({0} \cup {ChainFrom(k, primaryOnly) :
                                  k \in {k \in NodeIds : k > n /\ Linked(n, k, primaryOnly)}})

LongestChain(primaryOnly) ==
    Max({0} \cup {ChainFrom(n, primaryOnly) : n \in NodeIds})

(* C8, as claimed. After a successful run circuit_duration is at least     *)
(* the duration of every node and equals the largest sum of durations      *)
(* along a chain of nodes in which consecutive nodes share a resource.     *)
C8_Makespan ==
    Done => /\ \A n \in NodeIds : circuit_duration >= Duration(n)
            /\ circuit_duration = LongestChain(FALSE)

(* C8, amended. After a successful run circuit_duration is at least the    *)
(* duration of every node that has a primary resource; and on a graph      *)
(* whose nodes reference primary resources only it equals the largest sum  *)
(* of durations along a chain of nodes in which consecutive nodes share a  *)
(* primary resource.                                                       *)
C8_MakespanPrimary ==
    Done => /\ \A n \in NodeIds : nodes[n].qargs # {} => circuit_duration >= Duration(n)
            /\ (\A n \in NodeIds : nodes[n].cargs = {})
                  => circuit_duration = LongestChain(TRUE)

(* a chain of two nodes of positive duration on primary resources only,    *)
(* the earlier one on both qubits, has set the makespan                    *)
C8_Witness ==
    /\ Done
    /\ \A n \in NodeIds : nodes[n].cargs = {}
    /\ \E a \in NodeIds : \E b \in NodeIds :
          /\ a < b
          /\ nodes[a].qargs = Qubits
          /\ SharePrimary(a, b)
          /\ Duration(a) > 0
          /\ Duration(b) > 0
          /\ circuit_duration = Duration(a) + Duration(b)

(* nothing of the run has happened: no node listed, no duration queried,   *)
(* no clock created, no backward end recorded, no result published         *)
Untouched ==
    /\ nodes = << >>
    /\ op_duration = Empty
    /\ idle_before = Empty
    /\ node_start_time = Empty
    /\ published = PrevResult

(* C9, as claimed. Once the run has left its entry: if the dag's registers *)
(* are not exactly the one register "q" it has failed with MappingError,   *)
(* if the time unit is "stretch" it has failed with ConfigurationError,    *)
(* and in both cases nothing of the run has happened.                      *)
C9_FailFast ==
    pc # "start" =>
       /\ qregs # {"q"} => (pc = "raised" /\ error = "MappingError" /\ Untouched)
       /\ time_unit = "stretch" =>
             (pc = "raised" /\ error = "ConfigurationError" /\ Untouched)

(* C9, amended. Once the run has left its entry: if the dag's registers    *)
(* are not exactly the one register "q" it has failed with MappingError;   *)
(* if they are and the time unit is "stretch" it has failed with           *)
(* ConfigurationError; in both cases nothing of the run has happened.      *)
C9_FailFastRegistersFirst ==
    pc # "start" =>
       /\ qregs # {"q"} => (pc = "raised" /\ error = "MappingError" /\ Untouched)
       /\ (qregs = {"q"} /\ time_unit = "stretch") =>
             (pc = "raised" /\ error = "ConfigurationError" /\ Untouched)

(* a run on a single register of another name, under the stretch unit, has *)
(* failed on the register check                                            *)
C9_Witness ==
    /\ pc = "raised"
    /\ error = "MappingError"
    /\ Cardinality(qregs) = 1
    /\ time_unit = "stretch"

(* C10. When the duration oracle fails the run ends without publishing:    *)
(* property_set["node_start_time"] is what it was before the run.          *)
C10_DurationUnavailableKeepsResult ==
    error = "DurationUnavailable" => (pc = "raised" /\ published = PrevResult)

(* the oracle has failed after a node of positive duration was processed   *)
C10_Witness ==
    /\ error = "DurationUnavailable"
    /\ i >= 1
    /\ i < Len(nodes)
    /\ node_start_time # Empty
    /\ \E b \in DOMAIN idle_before : idle_before[b] > 0

(* C11. Determinism across traversal orders: after a successful run, a run *)
(* over any other topological order of the same dependency graph, with the *)
(* same durations and latency, gives every node the same start time and    *)
(* the same circuit_duration.                                              *)
C11_OrderIndependent ==
    Done => \A p \in TopologicalOrders(nodes) :
               LET other == RunResult([k \in NodeIds |-> nodes[p[k]]],
                                      [k \in NodeIds |-> op_duration[p[k]]],
                                      clbit_write_latency, DOMAIN idle_before)
               IN  /\ other.duration = circuit_duration
                   /\ \A k \in NodeIds : other.start[k] = StartTime(p[k])

(* two nodes of different durations on no common wire have been scheduled  *)
(* at different times, and the dag has a second topological order          *)
C11_Witness ==
    /\ Done
    /\ \E a \in NodeIds : \E b \in NodeIds :
          /\ a < b
          /\ ~Dependent(nodes, a, b)
          /\ Duration(a) > 0
          /\ Duration(b) = 0
          /\ StartTime(a) # StartTime(b)
    /\ \E p \in TopologicalOrders(nodes) : \E k \in NodeIds : p[k] # k

C13_ConditionSupportedPolicy ==
    [][(NodeStep /\ nodes[i].kind = "ConditionSupported") =>
          /\ nodes[i].qargs # {}
          /\ LET t1 == LatestClock(nodes[i].qargs) + op_duration'[i]
             IN  /\ node_start_time'[i] = t1
                 /\ \A q \in nodes[i].qargs : idle_before'[q] = t1
                 /\ \A c \in Clbits \cap DOMAIN idle_before :
                       idle_before'[c] = idle_before[c]]_vars

(* a ConditionSupported node that references a clbit has been processed    *)
(* with a backward start below that clbit's clock                          *)
C13_Witness ==
    /\ pc = "loop"
    /\ i < Len(nodes)
    /\ nodes[i + 1].kind = "ConditionSupported"
    /\ \E c \in nodes[i + 1].cargs :
          idle_before[c] > node_start_time[i + 1] - op_duration[i + 1]

(* the run was over one Measurement of duration 10 under latency 4 *)
Scenario1 ==
    /\ Done
    /\ Len(nodes) = 1
    /\ nodes[1].kind = "Measurement"
    /\ Duration(1) = 10
    /\ clbit_write_latency = 4

(* C14, as claimed. One Measurement of duration 10 under latency 4 starts  *)
(* at 0, circuit_duration is 10, and the clock recorded for its secondary  *)
(* resource is forward time 6 = start_time + d - L once flipped to the     *)
(* forward timeline (forward time = circuit_duration - backward time).     *)
C14_Scenario1 ==
    Scenario1 =>
       /\ StartTime(1) = 0
       /\ circuit_duration = 10
       /\ \A c \in nodes[1].cargs :
             /\ circuit_duration - idle_before[c] = 6
             /\ circuit_duration - idle_before[c] = StartTime(1) + Duration(1) - clbit_write_latency

(* C14, amended. One Measurement of duration 10 under latency 4 starts at  *)
(* 0, circuit_duration is 10, and the clock recorded for its secondary     *)
(* resource is 6 = t0 + d - L on the backward clock, which is forward time *)
(* circuit_duration - 6 = 4 = start_time + L.                              *)
C14_Scenario1BackwardClock ==
    Scenario1 =>
       /\ StartTime(1) = 0
       /\ circuit_duration = 10
       /\ \A c \in nodes[1].cargs :
             /\ idle_before[c] = 6
             /\ circuit_duration - idle_before[c] = 4
             /\ circuit_duration - idle_before[c] = StartTime(1) + clbit_write_latency

C14_Witness == Scenario1 /\ \E c \in nodes[1].cargs : idle_before[c] = 6

(* C15, as claimed. A successful run over a dag of exactly one node of     *)
(* duration d gives that node start time 0 and circuit_duration d,         *)
(* whatever the kind and the latency.                                      *)
C15_SingleNode ==
    (Done /\ Len(nodes) = 1) => (StartTime(1) = 0 /\ circuit_duration = Duration(1))

(* C16. After a successful run on a dag whose nodes reference primary      *)
(* resources only, every node stops at circuit_duration when no later node *)
(* shares a qubit with it, and otherwise at the smallest start time among  *)
(* the later nodes that share a qubit with it.                             *)
C16_NoSlack ==
    (Done /\ \A n \in NodeIds : nodes[n].cargs = {}) =>
       \A n \in NodeIds :
          LET later == {m \in NodeIds : m > n /\ SharePrimary(n, m)}
          IN  StopTime(n) = IF later = {} THEN circuit_duration
                            ELSE Min({StartTime(m) : m \in later})

(* B then A on one qubit with durations 5 and 3: starts 0 and 5,           *)
(* circuit_duration 8                                                      *)
C16_Witness ==
    /\ Done
    /\ Len(nodes) = 2
    /\ nodes[1].qargs = {"q0"} /\ nodes[1].cargs = {}
    /\ nodes[2].qargs = {"q0"} /\ nodes[2].cargs = {}
    /\ Duration(1) = 5 /\ Duration(2) = 3
    /\ StartTime(1) = 0 /\ StartTime(2) = 5
    /\ circuit_duration = 8

(* the loop has assigned idle_before[b] once more in this step *)
WrittenOnce(b) == writes'[b] = writes[b] + 1

(* the loop has neither assigned nor changed idle_before[b] in this step *)
LeftAlone(b) == writes'[b] = writes[b] /\ idle_before'[b] = idle_before[b]

(* C17, as claimed. All clocks start at 0; a step that processes a node    *)
(* writes the clock of every bit in the node's qargs and cargs exactly     *)
(* once and leaves every other clock alone; no other step writes a clock.  *)
C17_SingleWriter ==
    [][/\ (pc = "start" /\ pc' = "loop") =>
             \A b \in DOMAIN idle_before' : idle_before'[b] = 0 /\ writes'[b] = 0
       /\ NodeStep =>
             \A b \in DOMAIN idle_before :
                IF b \in nodes[i].qargs \cup nodes[i].cargs
                THEN WrittenOnce(b) ELSE LeftAlone(b)
       /\ (pc = "loop" /\ ~NodeStep) =>
             \A b \in DOMAIN idle_before : LeftAlone(b)]_vars

(* C17, amended. All clocks start at 0; a step that processes a node       *)
(* writes the clock of every bit in the node's qargs exactly once, and of  *)
(* every bit in its cargs exactly once when the node is a Measurement, and *)
(* leaves every other clock alone (the cargs of a node of another kind     *)
(* included); no other step writes a clock.                                *)
C17_SingleWriterOfQargs ==
    [][/\ (pc = "start" /\ pc' = "loop") =>
             \A b \in DOMAIN idle_before' : idle_before'[b] = 0 /\ writes'[b] = 0
       /\ NodeStep =>
             \A b \in DOMAIN idle_before :
                IF \/ b \in nodes[i].qargs
                   \/ (nodes[i].kind = "Measurement" /\ b \in nodes[i].cargs)
                THEN WrittenOnce(b) ELSE LeftAlone(b)
       /\ (pc = "loop" /\ ~NodeStep) =>
             \A b \in DOMAIN idle_before : LeftAlone(b)]_vars

(* two nodes have been processed: a qubit's clock was written by both, a   *)
(* clbit's clock by the Measurement among them only, though both name it   *)
C17_Witness ==
    /\ pc = "loop"
    /\ i = 0
    /\ Len(nodes) = 2
    /\ \E q \in Qubits : writes[q] = 2
    /\ \E c \in nodes[1].cargs \cap nodes[2].cargs : writes[c] = 1 /\ idle_before[c] > 0

(* C18, as claimed. A run ends with no error other than the three          *)
(* specified ones: once both precondition checks have passed, it either    *)
(* goes on or fails with DurationUnavailable.                              *)
C18_OnlySpecifiedErrors ==
    /\ error \in {"none", "MappingError", "ConfigurationError", "DurationUnavailable"}
    /\ pc = "raised" => error # "none"

(* C19, as claimed. A ConditionSupported node C that has the clbit of an   *)
(* earlier Measurement M among its cargs starts no earlier than M stops.   *)
C19_ConditionAfterMeasure ==
    Done => \A m \in NodeIds : \A c \in NodeIds :
               ( /\ m < c
                 /\ nodes[m].kind = "Measurement"
                 /\ nodes[c].kind = "ConditionSupported"
                 /\ nodes[m].cargs \cap nodes[c].cargs # {} )
               => StartTime(c) >= StartTime(m) + Duration(m)

(* C19, amended. A ConditionSupported node C that has the clbit of an      *)
(* earlier Measurement M among its cargs starts no earlier than M stops    *)
(* when it also acts on M's qubit.                                         *)
C19_ConditionAfterMeasureOnSharedQubit ==
    Done => \A m \in NodeIds : \A c \in NodeIds :
               ( /\ m < c
                 /\ nodes[m].kind = "Measurement"
                 /\ nodes[c].kind = "ConditionSupported"
                 /\ nodes[m].cargs \cap nodes[c].cargs # {}
                 /\ nodes[m].qargs \subseteq nodes[c].qargs )
               => StartTime(c) >= StartTime(m) + Duration(m)

(* a Measurement of positive duration is followed by a ConditionSupported  *)
(* node of positive duration on its clbit and its qubit                    *)
C19_Witness ==
    /\ Done
    /\ \E m \in NodeIds : \E c \in NodeIds :
          /\ m < c
          /\ nodes[m].kind = "Measurement"
          /\ nodes[c].kind = "ConditionSupported"
          /\ nodes[m].cargs \cap nodes[c].cargs # {}
          /\ nodes[m].qargs \subseteq nodes[c].qargs
          /\ Duration(m) > 0
          /\ Duration(c) > 0
          /\ StartTime(c) = StartTime(m) + Duration(m)
====
